---- MODULE Spec2Model ----
(***************************************************************************)
(* Model of the invoice ledger contract of src/src/lib.rs: the id counter  *)
(* NEXT_INVOICE_ID, the table INVOICES, the issuer index USER_INVOICES,    *)
(* the two execute handlers and the two queries.                           *)
(*                                                                         *)
(* A handler is an operator from the storage it is given (and the call's   *)
(* inputs) to the storage it leaves and the result it returns; an action   *)
(* draws the inputs of one call and applies the handler.  The storage a    *)
(* handler returns on an error path is the storage as the code left it at  *)
(* the `return Err(..)`.                                                   *)
(***************************************************************************)
EXTENDS Integers, Sequences, FiniteSets, TLC

\* ------------------------------------------------------------------ bounds

\* No CreateInvoice is issued once MaxInvoices creates have succeeded.
MaxInvoices == 2
\* Amounts of invoices range over 0..MaxAmount, of attached coins over 1..MaxAmount.
MaxAmount == 2

\* ------------------------------------------------------------------ inputs

\* The accounts that issue invoices and are invoiced.
Issuers == {"alice", "bob"}
\* An account that signs PayInvoice calls and is asked about, but neither
\* issues nor is invoiced.
Strangers == {"carol"}
\* MessageInfo.sender is an Addr the host has already validated.
Addrs == Issuers \cup Strangers

\* The strings a caller may pass where the contract expects an address:
\* normalized addresses, a non-normalized spelling of one of them, and a
\* string that is no address at all.
RecipientStrings == Issuers \cup {"ALICE", ""}
UserStrings == Addrs \cup {"ALICE", ""}

Amounts == 0..MaxAmount
Descriptions == {"rent"}
DueDates == {1000}

\* The denominations, in the order the host sorts coins.
DenomOrder == <<"uatom", "uosmo">>
Denoms == {DenomOrder[i] : i \in DOMAIN DenomOrder}

\* The coins of the denominations D with the amounts a, sorted by denomination.
FundsOf(D, a) ==
    LET ds == SelectSeq(DenomOrder, LAMBDA d : d \in D)
    IN  [i \in 1..Len(ds) |-> [denom |-> ds[i], amount |-> a[ds[i]]]]

\* Every value of MessageInfo.funds within the bounds: the host hands over
\* positive amounts of distinct denominations, sorted (none, one coin, or
\* one coin of each denomination).
FundsInputs == UNION {{FundsOf(D, a) : a \in [D -> 1..MaxAmount]} : D \in SUBSET Denoms}

\* ------------------------------------------------------------------ state

VARIABLES
    counter,        \* NEXT_INVOICE_ID
    invoices,       \* INVOICES: a function whose domain is the set of stored ids
    user_invoices,  \* USER_INVOICES: a function whose domain is the set of stored addresses
    last,           \* what the last call returned: the Response's attributes, the
                    \* query's payload, or the error
    created,        \* the (issuer, invoice_id) attributes of every successful
                    \* create_invoice response, in call order, each with the
                    \* recipient, amount, description and due_date of its message
    paid            \* the invoice_id attributes of the successful pay_invoice responses

vars == <<counter, invoices, user_invoices, last, created, paid>>

\* The contract's storage as one value.
Storage == [counter |-> counter, invoices |-> invoices, user_invoices |-> user_invoices]

\* ------------------------------------------------------------------ storage helpers

\* Map::save
MapSave(m, k, v) == [x \in DOMAIN m \cup {k} |-> IF x = k THEN v ELSE m[x]]

\* MayLoadOrDefault that never loads.
MayLoadOrDefault_default(m, k) == <<>>

\* Map::may_load(..)?.unwrap_or_default() on a Vec-valued map
MayLoadOrDefault(m, k) == IF k \in DOMAIN m THEN m[k] ELSE <<>>

\* ------------------------------------------------------------------ host: addr_validate

\* Api::addr_humanize(Api::addr_canonicalize(s)): the normalized spelling of
\* an address string, "" where the string has none.
NormalizedForm(s) ==
    CASE s = "ALICE" -> "alice"
      [] s \in Addrs -> s
      [] OTHER       -> ""

\* Api::addr_validate: an error unless the string is an address in its
\* normalized spelling; then the Addr made of the very string.
addr_validate(s) ==
    IF NormalizedForm(s) = "" \/ NormalizedForm(s) # s
    THEN [ok |-> FALSE, addr |-> ""]
    ELSE [ok |-> TRUE, addr |-> s]

Error(op, kind) == [op |-> op, err |-> kind]

\* ------------------------------------------------------------------ instantiate

\* instantiate that clears the table and the index.
instantiate_clearing(st) ==
    [st  |-> [counter |-> 1, invoices |-> <<>>, user_invoices |-> <<>>],
     out |-> [op |-> "instantiate", err |-> "ok"]]

instantiate(st) ==
    [st  |-> [st EXCEPT !.counter = 1],
     out |-> [op |-> "instantiate", err |-> "ok"]]

EmptyStorage == [counter |-> 0, invoices |-> <<>>, user_invoices |-> <<>>]

\* ------------------------------------------------------------------ create_invoice

\* create_check with the amount check made before the self-invoice check.
create_check_amount_first(sender, recipient, amount) ==
    LET v == addr_validate(recipient)
    IN  IF ~v.ok THEN "InvalidAddress"
        ELSE IF amount = 0 THEN "ZeroAmount"
        ELSE IF sender = v.addr THEN "SelfInvoice"
        ELSE "ok"

\* create_check with the amount check left out.
create_check_no_amount(sender, recipient, amount) ==
    LET v == addr_validate(recipient)
    IN  IF ~v.ok THEN "InvalidAddress"
        ELSE IF sender = v.addr THEN "SelfInvoice"
        ELSE "ok"

\* create_check with the self-invoice check left out.
create_check_no_self(sender, recipient, amount) ==
    LET v == addr_validate(recipient)
    IN  IF ~v.ok THEN "InvalidAddress"
        ELSE IF amount = 0 THEN "ZeroAmount"
        ELSE "ok"

\* The checks of execute_create_invoice, in the order the code makes them:
\* the error the call returns, "ok" when it goes on to write.
create_check(sender, recipient, amount) ==
    LET v == addr_validate(recipient)
    IN  IF ~v.ok THEN "InvalidAddress"
        ELSE IF sender = v.addr THEN "SelfInvoice"      \* "Cannot create invoice for yourself"
        ELSE IF amount = 0 THEN "ZeroAmount"            \* "Amount must be greater than zero"
        ELSE "ok"

\* next_counter that saves the id it loaded.
next_counter_same(id) == id

\* next_counter that skips an id.
next_counter_skip(id) == id + 2

\* NEXT_INVOICE_ID.save(.., &(id + 1))
next_counter(id) == id + 1

\* new_invoice that builds the invoice as paid.
new_invoice_paid(id, sender, recipient_addr, amount, description, due_date) ==
    [id          |-> id,
     issuer      |-> sender,
     recipient   |-> recipient_addr,
     amount      |-> amount,
     description |-> description,
     due_date    |-> due_date,
     is_paid     |-> TRUE]

\* new_invoice with issuer and recipient exchanged.
new_invoice_swapped(id, sender, recipient_addr, amount, description, due_date) ==
    [id          |-> id,
     issuer      |-> recipient_addr,
     recipient   |-> sender,
     amount      |-> amount,
     description |-> description,
     due_date    |-> due_date,
     is_paid     |-> FALSE]

\* The Invoice value the handler builds.
new_invoice(id, sender, recipient_addr, amount, description, due_date) ==
    [id          |-> id,
     issuer      |-> sender,
     recipient   |-> recipient_addr,
     amount      |-> amount,
     description |-> description,
     due_date    |-> due_date,
     is_paid     |-> FALSE]

\* push that inserts at the front.
push_front(ids, id) == <<id>> \o ids

\* push that appends the id twice.
push_twice(ids, id) == Append(Append(ids, id), id)

\* user_invoices.push(id)
push(ids, id) == Append(ids, id)

\* execute_create_invoice that saves the counter before it checks the amount.
execute_create_invoice_early_save(st, sender, recipient, amount, description, due_date) ==
    LET v == addr_validate(recipient)
    IN  IF ~v.ok THEN [st |-> st, out |-> Error("create_invoice", "InvalidAddress")]
        ELSE IF sender = v.addr THEN [st |-> st, out |-> Error("create_invoice", "SelfInvoice")]
        ELSE
        LET id   == st.counter
            st1  == [st EXCEPT !.counter = id + 1]
        IN  IF amount = 0 THEN [st |-> st1, out |-> Error("create_invoice", "ZeroAmount")]
            ELSE
            LET invoice == [id |-> id, issuer |-> sender, recipient |-> v.addr, amount |-> amount,
                            description |-> description, due_date |-> due_date, is_paid |-> FALSE]
                st2  == [st1 EXCEPT !.invoices = MapSave(st1.invoices, id, invoice)]
                list == Append(MayLoadOrDefault(st2.user_invoices, sender), id)
                st3  == [st2 EXCEPT !.user_invoices = MapSave(st2.user_invoices, sender, list)]
            IN  [st  |-> st3,
                 out |-> [op |-> "create_invoice", err |-> "ok", issuer |-> sender,
                          recipient |-> recipient, invoice_id |-> id]]

execute_create_invoice(st, sender, recipient, amount, description, due_date) ==
    LET chk == create_check(sender, recipient, amount)
    IN  IF chk # "ok" THEN [st |-> st, out |-> Error("create_invoice", chk)]
        ELSE
        LET recipient_addr == addr_validate(recipient).addr
            id   == st.counter
            st1  == [st EXCEPT !.counter = next_counter(id)]
            invoice == new_invoice(id, sender, recipient_addr, amount, description, due_date)
            st2  == [st1 EXCEPT !.invoices = MapSave(st1.invoices, id, invoice)]
            list == push(MayLoadOrDefault(st2.user_invoices, sender), id)
            st3  == [st2 EXCEPT !.user_invoices = MapSave(st2.user_invoices, sender, list)]
        IN  [st  |-> st3,
             out |-> [op |-> "create_invoice", err |-> "ok", issuer |-> sender,
                      recipient |-> recipient, invoice_id |-> id]]

\* ------------------------------------------------------------------ pay_invoice

\* funds_match that accepts an overpayment.
funds_match_at_least(funds, invoice) ==
    Len(funds) = 1 /\ funds[1].amount >= invoice.amount

\* info.funds.len() != 1 || info.funds[0].amount != invoice.amount, negated
funds_match(funds, invoice) ==
    Len(funds) = 1 /\ funds[1].amount = invoice.amount

\* pay_check with the funds check made before the is_paid check.
pay_check_funds_first(invoice, sender, funds) ==
    IF invoice.recipient # sender THEN "Unauthorized"
    ELSE IF ~(Len(funds) = 1 /\ funds[1].amount = invoice.amount) THEN "IncorrectPayment"
    ELSE IF invoice.is_paid THEN "AlreadyPaid"
    ELSE "ok"

\* pay_check with the is_paid check made before the recipient check.
pay_check_paid_first(invoice, sender, funds) ==
    IF invoice.is_paid THEN "AlreadyPaid"
    ELSE IF invoice.recipient # sender THEN "Unauthorized"
    ELSE IF ~(Len(funds) = 1 /\ funds[1].amount = invoice.amount) THEN "IncorrectPayment"
    ELSE "ok"

\* pay_check with the recipient check left out.
pay_check_no_recipient(invoice, sender, funds) ==
    IF invoice.is_paid THEN "AlreadyPaid"
    ELSE IF ~(Len(funds) = 1 /\ funds[1].amount = invoice.amount) THEN "IncorrectPayment"
    ELSE "ok"

\* The checks of execute_pay_invoice on a loaded invoice, in the order the
\* code makes them.
pay_check(invoice, sender, funds) ==
    IF invoice.recipient # sender THEN "Unauthorized"   \* "Only the recipient can pay this invoice"
    ELSE IF invoice.is_paid THEN "AlreadyPaid"          \* "Invoice is already paid"
    ELSE IF ~funds_match(funds, invoice) THEN "IncorrectPayment"  \* "Incorrect payment amount"
    ELSE "ok"

\* mark_paid that also clears the amount owed.
mark_paid_settled(invoice) == [invoice EXCEPT !.is_paid = TRUE, !.amount = 0]

\* invoice.is_paid = true
mark_paid(invoice) == [invoice EXCEPT !.is_paid = TRUE]

execute_pay_invoice(st, sender, invoice_id, funds) ==
    IF invoice_id \notin DOMAIN st.invoices
    THEN [st |-> st, out |-> Error("pay_invoice", "InvoiceNotFound")]
    ELSE
    LET invoice == st.invoices[invoice_id]
        chk == pay_check(invoice, sender, funds)
    IN  IF chk # "ok" THEN [st |-> st, out |-> Error("pay_invoice", chk)]
        ELSE [st  |-> [st EXCEPT !.invoices = MapSave(st.invoices, invoice_id, mark_paid(invoice))],
              out |-> [op |-> "pay_invoice", err |-> "ok", payer |-> sender,
                       invoice_id |-> invoice_id]]

\* ------------------------------------------------------------------ queries

query_invoice(st, invoice_id) ==
    IF invoice_id \notin DOMAIN st.invoices
    THEN Error("get_invoice", "InvoiceNotFound")
    ELSE [op |-> "get_invoice", err |-> "ok", invoice |-> st.invoices[invoice_id]]

\* .filter_map(|id| INVOICES.may_load(.., id).ok()).flatten().collect():
\* the invoices of the ids that load, in the order of the ids.
RECURSIVE load_all(_, _)
load_all(st, ids) ==
    IF ids = <<>> THEN <<>>
    ELSE LET rest == load_all(st, Tail(ids))
         IN  IF Head(ids) \in DOMAIN st.invoices
             THEN <<st.invoices[Head(ids)]>> \o rest
             ELSE rest

query_user_invoices(st, user) ==
    LET v == addr_validate(user)
    IN  IF ~v.ok THEN Error("get_user_invoices", "InvalidAddress")
        ELSE [op |-> "get_user_invoices", err |-> "ok", user |-> user,
              invoices |-> load_all(st, MayLoadOrDefault(st.user_invoices, v.addr))]

\* ------------------------------------------------------------------ behaviour

\* The ids a call may name: every stored id, the next one, and 0.
IdInputs == 0..counter

Init ==
    LET r == instantiate(EmptyStorage)
    IN  /\ counter = r.st.counter
        /\ invoices = r.st.invoices
        /\ user_invoices = r.st.user_invoices
        /\ last = r.out
        /\ created = <<>>
        /\ paid = {}

Commit(r) ==
    /\ counter' = r.st.counter
    /\ invoices' = r.st.invoices
    /\ user_invoices' = r.st.user_invoices
    /\ last' = r.out

CreateInvoice(sender, recipient, amount, description, due_date) ==
    /\ Len(created) < MaxInvoices
    /\ LET r == execute_create_invoice(Storage, sender, recipient, amount, description, due_date)
       IN  /\ Commit(r)
           /\ created' = IF r.out.err = "ok"
                         THEN Append(created, [issuer      |-> r.out.issuer,
                                               invoice_id  |-> r.out.invoice_id,
                                               recipient   |-> r.out.recipient,
                                               amount      |-> amount,
                                               description |-> description,
                                               due_date    |-> due_date])
                         ELSE created
           /\ UNCHANGED paid

PayInvoice(sender, invoice_id, funds) ==
    LET r == execute_pay_invoice(Storage, sender, invoice_id, funds)
    IN  /\ Commit(r)
        /\ paid' = IF r.out.err = "ok" THEN paid \cup {r.out.invoice_id} ELSE paid
        /\ UNCHANGED created

GetInvoice(invoice_id) ==
    /\ last' = query_invoice(Storage, invoice_id)
    /\ UNCHANGED <<counter, invoices, user_invoices, created, paid>>

\* GetUserInvoices that saves the index entry it loaded or defaulted.
GetUserInvoices_saving(user) ==
    /\ last' = query_user_invoices(Storage, user)
    /\ user_invoices' = IF addr_validate(user).ok
                        THEN MapSave(user_invoices, user, MayLoadOrDefault(user_invoices, user))
                        ELSE user_invoices
    /\ UNCHANGED <<counter, invoices, created, paid>>

GetUserInvoices(user) ==
    /\ last' = query_user_invoices(Storage, user)
    /\ UNCHANGED <<counter, invoices, user_invoices, created, paid>>

Next ==
    \/ \E s \in Issuers, r \in RecipientStrings, a \in Amounts, d \in Descriptions, t \in DueDates :
          CreateInvoice(s, r, a, d, t)
    \/ \E s \in Addrs, id \in IdInputs, f \in FundsInputs : PayInvoice(s, id, f)
    \/ \E id \in IdInputs : GetInvoice(id)
    \/ \E u \in UserStrings : GetUserInvoices(u)

Spec == Init /\ [][Next]_vars

\* The instantiate entry point run again, on the storage as it stands after
\* a successful create, as a host that does not keep it to the contract's
\* creation would run it.
Instantiate ==
    /\ counter > 1
    /\ Commit(instantiate(Storage))
    /\ UNCHANGED <<created, paid>>

\* The entry points that write: instantiate and execute.
NextReinit ==
    \/ Instantiate
    \/ \E s \in Issuers, r \in RecipientStrings, a \in Amounts, d \in Descriptions, t \in DueDates :
          CreateInvoice(s, r, a, d, t)
    \/ \E s \in Addrs, id \in IdInputs, f \in FundsInputs : PayInvoice(s, id, f)

SpecReinit == Init /\ [][NextReinit]_vars

\* ------------------------------------------------------------------ claims

\* C1: the k-th successful CreateInvoice is assigned id k, whatever calls,
\* successful or failing, come in between: the ids the successful creates
\* returned are 1, 2, 3, ... in call order, with no gap and no repeat.
C1_SequentialIds ==
    \A k \in 1..Len(created) : created[k].invoice_id = k

\* A second invoice has just been created.
C1_Witness ==
    /\ last.op = "create_invoice" /\ last.err = "ok"
    /\ last.invoice_id = 2
    /\ Len(created) = 2

\* C2: on an existing unpaid invoice, a PayInvoice by its recipient succeeds
\* (and marks it paid) if and only if the funds are exactly one coin of the
\* invoice's amount; with any other funds it fails with IncorrectPayment and
\* the invoice stays unpaid.
C2_PaymentExactness ==
    \A id \in DOMAIN invoices :
        ~invoices[id].is_paid =>
            \A f \in FundsInputs :
                LET r == execute_pay_invoice(Storage, invoices[id].recipient, id, f)
                IN  IF Len(f) = 1 /\ f[1].amount = invoices[id].amount
                    THEN r.out.err = "ok" /\ r.st.invoices[id].is_paid
                    ELSE r.out.err = "IncorrectPayment" /\ ~r.st.invoices[id].is_paid

\* A recipient's payment has just been refused for its funds, and the
\* invoices are all still unpaid.
C2_Witness ==
    /\ last.op = "pay_invoice" /\ last.err = "IncorrectPayment"
    /\ invoices # <<>>
    /\ \A id \in DOMAIN invoices : ~invoices[id].is_paid

\* C3: the payment check takes the denomination into account: of two
\* PayInvoice calls by the recipient of an unpaid invoice that attach one
\* coin of the invoice's amount and differ only in the coin's denomination,
\* at most one succeeds.
C3_DenominationChecked ==
    \A id \in DOMAIN invoices :
        ~invoices[id].is_paid =>
            \A d1, d2 \in Denoms :
                d1 # d2 =>
                    LET pay(d) == execute_pay_invoice(Storage, invoices[id].recipient, id,
                                      <<[denom |-> d, amount |-> invoices[id].amount]>>)
                    IN  ~(pay(d1).out.err = "ok" /\ pay(d2).out.err = "ok")

\* C4: on a paid invoice every PayInvoice fails and leaves the storage as it
\* was, and one by the recipient fails with AlreadyPaid whatever the funds.
C4_PaidStaysPaid ==
    \A id \in DOMAIN invoices :
        invoices[id].is_paid =>
            \A s \in Addrs, f \in FundsInputs :
                LET r == execute_pay_invoice(Storage, s, id, f)
                IN  /\ r.out.err # "ok"
                    /\ r.st = Storage
                    /\ (s = invoices[id].recipient => r.out.err = "AlreadyPaid")

\* A payment of a paid invoice has just been refused.
C4_Witness ==
    /\ last.op = "pay_invoice" /\ last.err = "AlreadyPaid"
    /\ \E id \in DOMAIN invoices : invoices[id].is_paid

\* C5: a PayInvoice on an existing invoice, paid or unpaid, by anyone but its
\* recipient fails with Unauthorized whatever the funds, and is_paid is as it was.
C5_OnlyRecipientPays ==
    \A id \in DOMAIN invoices :
        \A s \in Addrs \ {invoices[id].recipient}, f \in FundsInputs :
            LET r == execute_pay_invoice(Storage, s, id, f)
            IN  /\ r.out.err = "Unauthorized"
                /\ r.st.invoices[id].is_paid = invoices[id].is_paid

\* A payment has just been refused as unauthorized, with a paid and an
\* unpaid invoice stored.
C5_Witness ==
    /\ last.op = "pay_invoice" /\ last.err = "Unauthorized"
    /\ \E id \in DOMAIN invoices : invoices[id].is_paid
    /\ \E id \in DOMAIN invoices : ~invoices[id].is_paid

\* C6: in every step, a stored invoice stays stored, a paid one stays paid,
\* and an invoice that appears is unpaid; an unpaid one becomes paid only in
\* a step that is a successful PayInvoice, and every PayInvoice call that
\* makes that step names its id, is signed by its recipient and attaches
\* exactly one coin of its amount.
C6_UnpaidToPaidOnly ==
    [][ /\ \A id \in DOMAIN invoices :
              /\ id \in DOMAIN invoices'
              /\ invoices[id].is_paid => invoices'[id].is_paid
              /\ (~invoices[id].is_paid /\ invoices'[id].is_paid) =>
                    /\ last'.op = "pay_invoice" /\ last'.err = "ok"
                    /\ last'.invoice_id = id
                    /\ last'.payer = invoices[id].recipient
                    /\ \E s \in Addrs, i \in IdInputs, f \in FundsInputs : PayInvoice(s, i, f)
                    /\ \A s \in Addrs, i \in IdInputs, f \in FundsInputs :
                          PayInvoice(s, i, f) =>
                              /\ i = id
                              /\ s = invoices[id].recipient
                              /\ Len(f) = 1 /\ f[1].amount = invoices[id].amount
        /\ \A id \in DOMAIN invoices' \ DOMAIN invoices : ~invoices'[id].is_paid
      ]_vars

\* An invoice has just been paid.
C6_Witness ==
    /\ last.op = "pay_invoice" /\ last.err = "ok"
    /\ invoices[last.invoice_id].is_paid

\* The ids of the successful creates of issuer a, in call order.
CreatedBy(a) == SelectSeq(created, LAMBDA c : c.issuer = a)

\* C7: GetUserInvoices(A) returns exactly the invoices A's successful
\* CreateInvoice calls created, in creation order (ascending id), whatever
\* other calls were made; an invoice A only receives is not among them.
C7_IndexCompleteness ==
    \A a \in Addrs :
        LET q == query_user_invoices(Storage, a)
            mine == CreatedBy(a)
        IN  /\ q.err = "ok"
            /\ Len(q.invoices) = Len(mine)
            /\ \A k \in 1..Len(mine) :
                  /\ q.invoices[k].id = mine[k].invoice_id
                  /\ q.invoices[k] = invoices[mine[k].invoice_id]
                  /\ q.invoices[k].issuer = a
            /\ \A k, l \in 1..Len(mine) : k < l => q.invoices[k].id < q.invoices[l].id

\* GetUserInvoices has just returned the two invoices its user issued.
C7_Witness ==
    /\ last.op = "get_user_invoices" /\ last.err = "ok"
    /\ Len(last.invoices) = 2
    /\ Len(CreatedBy(last.user)) = 2

\* C8: a CreateInvoice or PayInvoice that returns an error leaves the
\* counter, the invoice table and the user index as they were.
C8_ErrorsWriteNothing ==
    /\ \A s \in Addrs, r \in UserStrings, a \in Amounts, d \in Descriptions, t \in DueDates :
          LET res == execute_create_invoice(Storage, s, r, a, d, t)
          IN  res.out.err # "ok" => res.st = Storage
    /\ \A s \in Addrs, id \in IdInputs, f \in FundsInputs :
          LET res == execute_pay_invoice(Storage, s, id, f)
          IN  res.out.err # "ok" => res.st = Storage

\* A CreateInvoice has just failed after the checks of address and caller,
\* with invoices stored.
C8_Witness ==
    /\ last.op = "create_invoice" /\ last.err = "ZeroAmount"
    /\ counter > 1

\* C9: a CreateInvoice whose recipient validates to the caller fails with
\* SelfInvoice whatever the amount (0 included), description and due date,
\* and writes nothing.
C9_SelfInvoiceRejected ==
    \A s \in Addrs, r \in UserStrings, a \in Amounts, d \in Descriptions, t \in DueDates :
        (addr_validate(r).ok /\ addr_validate(r).addr = s) =>
            LET res == execute_create_invoice(Storage, s, r, a, d, t)
            IN  res.out.err = "SelfInvoice" /\ res.st = Storage

\* A self-invoice has just been refused.
C9_Witness ==
    last.op = "create_invoice" /\ last.err = "SelfInvoice"

\* C10: a CreateInvoice with amount 0 never succeeds and writes nothing; with
\* a valid recipient other than the caller it fails with ZeroAmount.
C10_ZeroAmountRejected ==
    \A s \in Addrs, r \in UserStrings, d \in Descriptions, t \in DueDates :
        LET res == execute_create_invoice(Storage, s, r, 0, d, t)
        IN  /\ res.out.err # "ok"
            /\ res.st = Storage
            /\ (addr_validate(r).ok /\ addr_validate(r).addr # s) => res.out.err = "ZeroAmount"

\* A zero-amount invoice has just been refused, with the counter still at 1.
C10_Witness ==
    /\ last.op = "create_invoice" /\ last.err = "ZeroAmount"
    /\ counter = 1 /\ invoices = <<>> /\ user_invoices = <<>>

\* C11: every stored invoice has an issuer other than its recipient and a
\* positive amount and is stored under its own id, so that no two stored
\* invoices share an id.
C11_StoredInvoicesValid ==
    /\ \A id \in DOMAIN invoices :
          /\ invoices[id].issuer # invoices[id].recipient
          /\ invoices[id].amount > 0
          /\ invoices[id].id = id
    /\ \A i, j \in DOMAIN invoices : invoices[i].id = invoices[j].id => i = j

\* Two invoices are stored.
C11_Witness ==
    /\ Cardinality(DOMAIN invoices) = 2
    /\ \E i, j \in DOMAIN invoices : invoices[i].issuer # invoices[j].issuer

\* C12: a step whose result is that of GetInvoice or GetUserInvoices, a
\* payload or an error, leaves the counter, the invoice table and the user
\* index as they were; no index entry appears for the user asked about.
C12_QueriesReadOnly ==
    [][ last'.op \in {"get_invoice", "get_user_invoices"} =>
            /\ counter' = counter
            /\ invoices' = invoices
            /\ user_invoices' = user_invoices
            /\ DOMAIN user_invoices' = DOMAIN user_invoices
      ]_vars

\* GetUserInvoices has just answered for a user who has no index entry,
\* with invoices stored.
C12_Witness ==
    /\ last.op = "get_user_invoices" /\ last.err = "ok"
    /\ last.user \notin DOMAIN user_invoices
    /\ last.invoices = <<>>
    /\ invoices # <<>>

\* The ids the successful creates returned.
AssignedIds == {created[k].invoice_id : k \in 1..Len(created)}

\* The successful create that returned id.
CreationOf(id) == created[CHOOSE k \in 1..Len(created) : created[k].invoice_id = id]

\* C13: GetInvoice(id) fails with InvoiceNotFound exactly when no successful
\* CreateInvoice returned id; otherwise it returns the record of that id
\* with the caller of the create as issuer, the recipient, amount,
\* description and due_date of the create, and is_paid true exactly when a
\* PayInvoice on id has succeeded.
C13_GetInvoice ==
    \A id \in IdInputs :
        LET q == query_invoice(Storage, id)
        IN  IF id \notin AssignedIds
            THEN q.err = "InvoiceNotFound"
            ELSE /\ q.err = "ok"
                 /\ q.invoice = [id          |-> id,
                                 issuer      |-> CreationOf(id).issuer,
                                 recipient   |-> CreationOf(id).recipient,
                                 amount      |-> CreationOf(id).amount,
                                 description |-> CreationOf(id).description,
                                 due_date    |-> CreationOf(id).due_date,
                                 is_paid     |-> id \in paid]

\* GetInvoice has just returned a paid invoice while another id is not found.
C13_Witness ==
    /\ last.op = "get_invoice" /\ last.err = "ok"
    /\ last.invoice.is_paid
    /\ last.invoice.id \in paid
    /\ query_invoice(Storage, counter).err = "InvoiceNotFound"

\* C14: a successful PayInvoice(id) sets is_paid of invoice id and changes
\* nothing else: the other fields of that invoice, every other invoice, the
\* counter and the user index are as they were.
C14_PayFrame ==
    [][ (last'.op = "pay_invoice" /\ last'.err = "ok") =>
            /\ last'.invoice_id \in DOMAIN invoices
            /\ invoices' = [invoices EXCEPT ![last'.invoice_id].is_paid = TRUE]
            /\ counter' = counter
            /\ user_invoices' = user_invoices
      ]_vars

\* An invoice has just been paid with another invoice stored beside it.
C14_Witness ==
    /\ last.op = "pay_invoice" /\ last.err = "ok"
    /\ Cardinality(DOMAIN invoices) = 2
    /\ invoices[last.invoice_id].amount > 0

\* C15: a successful CreateInvoice by caller s with counter value c stores,
\* under the so far unused id c, the invoice of issuer s with the validated
\* recipient and the amount, description and due_date given and is_paid
\* false, sets the counter to c + 1 and appends c to the end of the index of
\* s; every invoice stored before and every other index entry is as it was.
C15_CreateFrame ==
    [][ (last'.op = "create_invoice" /\ last'.err = "ok") =>
            /\ \E s \in Issuers, r \in RecipientStrings, a \in Amounts,
                  d \in Descriptions, t \in DueDates : CreateInvoice(s, r, a, d, t)
            /\ \A s \in Issuers, r \in RecipientStrings, a \in Amounts,
                  d \in Descriptions, t \in DueDates :
                  CreateInvoice(s, r, a, d, t) =>
                      /\ counter \notin DOMAIN invoices
                      /\ DOMAIN invoices' = DOMAIN invoices \cup {counter}
                      /\ invoices'[counter] = [id          |-> counter,
                                               issuer      |-> s,
                                               recipient   |-> r,
                                               amount      |-> a,
                                               description |-> d,
                                               due_date    |-> t,
                                               is_paid     |-> FALSE]
                      /\ addr_validate(r).ok
                      /\ \A x \in DOMAIN invoices : invoices'[x] = invoices[x]
                      /\ counter' = counter + 1
                      /\ DOMAIN user_invoices' = DOMAIN user_invoices \cup {s}
                      /\ user_invoices'[s] =
                            Append(IF s \in DOMAIN user_invoices THEN user_invoices[s] ELSE <<>>,
                                   counter)
                      /\ \A u \in DOMAIN user_invoices \ {s} : user_invoices'[u] = user_invoices[u]
      ]_vars

\* An issuer has just created a second invoice, the first one being paid.
C15_Witness ==
    /\ last.op = "create_invoice" /\ last.err = "ok"
    /\ Len(user_invoices[last.issuer]) = 2
    /\ invoices[1].is_paid
    /\ last.recipient \notin DOMAIN user_invoices

\* C16: the stored ids are exactly 1 .. counter - 1, so the counter is one
\* more than the number of stored invoices; no step decreases the counter,
\* and a step changes it exactly when it is a successful CreateInvoice,
\* which adds 1.
C16_CounterTracksTable ==
    [][ /\ DOMAIN invoices = 1..(counter - 1)
        /\ DOMAIN invoices' = 1..(counter' - 1)
        /\ counter = 1 + Cardinality(DOMAIN invoices)
        /\ counter' = 1 + Cardinality(DOMAIN invoices')
        /\ counter' >= counter
        /\ (last'.op = "create_invoice" /\ last'.err = "ok") <=> counter' = counter + 1
        /\ counter' # counter => counter' = counter + 1
      ]_vars

\* The counter has been advanced twice, and a PayInvoice has left it there.
C16_Witness ==
    /\ counter = 3
    /\ DOMAIN invoices = {1, 2}
    /\ last.op = "pay_invoice"

\* The positions of id in the index list of address a.
PositionsOf(a, id) == {k \in 1..Len(user_invoices[a]) : user_invoices[a][k] = id}

\* C17: every id in an address's index list is that of a stored invoice the
\* address issued, every stored invoice's id is once in its issuer's list
\* and in no other list, every list is strictly increasing, and
\* GetUserInvoices returns as many invoices as the index list is long.
C17_IndexConsistent ==
    /\ \A a \in DOMAIN user_invoices :
          /\ \A k \in 1..Len(user_invoices[a]) :
                /\ user_invoices[a][k] \in DOMAIN invoices
                /\ invoices[user_invoices[a][k]].issuer = a
          /\ \A k, l \in 1..Len(user_invoices[a]) :
                k < l => user_invoices[a][k] < user_invoices[a][l]
    /\ \A id \in DOMAIN invoices :
          /\ invoices[id].issuer \in DOMAIN user_invoices
          /\ \A a \in DOMAIN user_invoices :
                Cardinality(PositionsOf(a, id)) = IF a = invoices[id].issuer THEN 1 ELSE 0
    /\ \A a \in Addrs :
          Len(query_user_invoices(Storage, a).invoices) =
              IF a \in DOMAIN user_invoices THEN Len(user_invoices[a]) ELSE 0

\* GetUserInvoices has just answered for one of two issuers with an index entry.
C17_Witness ==
    /\ last.op = "get_user_invoices" /\ last.err = "ok"
    /\ Len(last.invoices) = 1
    /\ Cardinality(DOMAIN user_invoices) = 2

\* The places (address, position) at which the index idx holds id.
Occurrences(idx, id) ==
    {p \in UNION {{<<a, k>> : k \in 1..Len(idx[a])} : a \in DOMAIN idx} : idx[p[1]][p[2]] = id}

\* C18: where instantiate is run again, it sets the counter to 1 and leaves
\* the table and the index as they are; the next successful CreateInvoice,
\* made with invoice 1 stored, is assigned id 1 again, replaces the stored
\* invoice 1 by the new, unpaid one (also where invoice 1 was paid) without
\* adding a table entry, and leaves id 1 at one more index position, that
\* is at two or more.
C18_ReinstantiateReusesIds ==
    [][ /\ last'.op = "instantiate" =>
              /\ counter' = 1
              /\ invoices' = invoices
              /\ user_invoices' = user_invoices
        /\ (last'.op = "create_invoice" /\ last'.err = "ok" /\ 1 \in DOMAIN invoices /\ counter = 1) =>
              /\ last'.invoice_id = 1
              /\ DOMAIN invoices' = DOMAIN invoices
              /\ ~invoices'[1].is_paid
              /\ invoices'[1].issuer = last'.issuer
              /\ invoices'[1].recipient = last'.recipient
              /\ Cardinality(Occurrences(user_invoices', 1)) =
                    Cardinality(Occurrences(user_invoices, 1)) + 1
              /\ Cardinality(Occurrences(user_invoices', 1)) >= 2
      ]_vars

\* After a second instantiate, id 1 has just been assigned a second time:
\* invoice 1, paid before, is stored unpaid with another issuer, and id 1 is
\* at two index positions.
C18_Witness ==
    /\ last.op = "create_invoice" /\ last.err = "ok" /\ last.invoice_id = 1
    /\ Len(created) = 2
    /\ created[1].invoice_id = 1 /\ created[2].invoice_id = 1
    /\ created[1].issuer # created[2].issuer
    /\ 1 \in paid /\ ~invoices[1].is_paid
    /\ Cardinality(Occurrences(user_invoices, 1)) = 2

====
